---- MODULE Spec2Model ----
(***************************************************************************)
(* RateEdge dashboard script (static/js/main.js): the two load-time        *)
(* fetch-and-render loaders started from the DOMContentLoaded handler, and *)
(* the showNotification toast with its two chained timers.                 *)
(*                                                                         *)
(* Numbers: a rate is a fixed-point integer counting units of 10^-5        *)
(* (0.0423 is 4230), so rate * 100 and toFixed(2) are computed on scaled   *)
(* integers. Text is TLA+ strings built with \o.                           *)
(***************************************************************************)
EXTENDS Integers, Sequences, FiniteSets, TLC

VARIABLES
    dom,        \* the host page: which elements exist, which cards hold a .market-rate child
    text,       \* textContent by element id (for a card: of its .market-rate child)
    server,     \* the backend: for each URL the outcomes a request for it can have
    requests,   \* the network layer's call log, in call order, with each call's status
    console,    \* console.error entries, in order
    escaped,    \* TRUE once an exception has left a loader (an unhandled rejection)
    spc,        \* loadStatistics: "init", "fetch" (await fetch), "json" (await json), "done"
    sprom,      \* the promise loadStatistics awaits
    rpc,        \* loadMarketRates: "init", "fetch", "json", "done", "aborted"
    ri,         \* loadMarketRates: index in currencies of the current iteration
    rprom,      \* the promise loadMarketRates awaits
    now,        \* the clock, in ms
    notes,      \* the notification elements created so far
    timers      \* the pending setTimeout callbacks

vars == <<dom, text, server, requests, console, escaped,
          spc, sprom, rpc, ri, rprom, now, notes, timers>>

loaderVars == <<dom, text, server, requests, console, escaped,
                spc, sprom, rpc, ri, rprom>>

noteVars == <<now, notes, timers>>

-----------------------------------------------------------------------------
(* Bounds of the model                                                     *)

MaxObs == 2          \* longest data array of a rates response
MaxNotes == 2        \* calls of showNotification
MaxTime == 4200      \* the clock stops here

-----------------------------------------------------------------------------
(* Configuration                                                           *)

API_BASE == "origin"

currencies ==
    << [id |-> "audCard", currency |-> "AUD", tenor |-> "10Y"],
       [id |-> "usdCard", currency |-> "USD", tenor |-> "10Y"],
       [id |-> "jpyCard", currency |-> "JPY", tenor |-> "10Y"],
       [id |-> "nzdCard", currency |-> "NZD", tenor |-> "10Y"] >>

StatsUrl == API_BASE \o "/api/statistics"

RateUrl(curr) ==
    API_BASE \o "/api/rates?currency=" \o curr.currency
             \o "&tenor=" \o curr.tenor \o "&limit=1"

RateUrls == {RateUrl(currencies[i]) : i \in DOMAIN currencies}

Urls == {StatsUrl} \cup RateUrls

StatIds == {"totalRecords", "currencies", "latestDate"}

CardIds == {currencies[i].id : i \in DOMAIN currencies}

Ids == StatIds \cup CardIds

StatsMsg == "Failed to load statistics:"

RateMsg(curr) == "Failed to load " \o curr.currency \o " rate:"

-----------------------------------------------------------------------------
(* Values on the wire                                                      *)

Absent == <<>>                       \* a field the object does not have
Present(v) == <<v>>
Opt(S) == {Absent} \cup {Present(v) : v \in S}

NetworkError == [kind |-> "network-error"]          \* fetch rejects
Unparseable == [kind |-> "body", json |-> FALSE]    \* response.json() rejects
JsonBody(v) == [kind |-> "body", json |-> TRUE, value |-> v]

Has(o, f) == f \in DOMAIN o

\* rates, in units of 10^-5: 0.04238 and -0.00012. Neither lies halfway between two
\* hundredths of a percent, where the binary product decides the rounding.
Rates == {4238, -12}

Observations == {[rate |-> r] : r \in Opt(Rates)}

RECURSIVE SeqsUpTo(_, _)
SeqsUpTo(S, n) ==
    IF n = 0 THEN {<<>>}
    ELSE LET shorter == SeqsUpTo(S, n - 1)
         IN  shorter \cup {Append(s, x) : s \in {q \in shorter : Len(q) = n - 1}, x \in S}

RateValues ==
    {[success |-> FALSE], [success |-> TRUE]}
      \cup {[success |-> TRUE, data |-> d] : d \in SeqsUpTo(Observations, MaxObs)}

RateOutcomes == {NetworkError, Unparseable} \cup {JsonBody(v) : v \in RateValues}

\* the usual answer to a rates request
OkRates == JsonBody([success |-> TRUE, data |-> <<[rate |-> Present(4238)],
                                                  [rate |-> Present(-12)]>>])

StatsData ==
    [total_records : Opt({0, 15234}),
     currencies : Opt({0, 4}),
     latest_date : Opt({"", "2024-03-14"})]

StatsValues ==
    {[success |-> FALSE], [success |-> TRUE]}
      \cup {[success |-> TRUE, data |-> d] : d \in StatsData}

StatsOutcomes == {NetworkError, Unparseable} \cup {JsonBody(v) : v \in StatsValues}

-----------------------------------------------------------------------------
(* Formatting                                                              *)

Abs(n) == IF n < 0 THEN -n ELSE n

Pad(s, width) ==
    IF Len(s) + 2 <= width THEN "00" \o s
    ELSE IF Len(s) + 1 <= width THEN "0" \o s
    ELSE s

\* Number.prototype.toLocaleString of a non-negative integer: groups of three
RECURSIVE toLocaleString(_)
toLocaleString(n) ==
    IF n < 1000 THEN ToString(n)
    ELSE toLocaleString(n \div 1000) \o "," \o Pad(ToString(n % 1000), 3)

\* rate * 100, both in units of 10^-5
Times100(r) == r * 100

\* Number.prototype.toFixed(2) of x, in units of 10^-5: the nearest hundredth,
\* the sign kept from x
toFixed2(x) ==
    LET h == (Abs(x) + 500) \div 1000
    IN  (IF x < 0 THEN "-" ELSE "")
          \o ToString(h \div 100) \o "." \o Pad(ToString(h % 100), 2)

\* (data.data[0].rate * 100).toFixed(2): a missing rate is undefined, and
\* undefined * 100 is NaN
rateText(obs) ==
    IF obs.rate = Absent THEN "NaN" ELSE toFixed2(Times100(obs.rate[1]))

-----------------------------------------------------------------------------
(* The page                                                                *)

Placeholder == "Loading..."

getElementById(id) == id \in dom.exists

\* card.querySelector('.market-rate') of an existing card
querySelector(id) == id \in dom.rate

Doms ==
    {d \in [exists : SUBSET Ids, rate : SUBSET CardIds] : d.rate \subseteq d.exists}

Defects(d) ==
    Cardinality(Ids \ d.exists) + Cardinality((CardIds \cap d.exists) \ d.rate)

-----------------------------------------------------------------------------
(* Promises, try/catch                                                     *)

NoPromise == [st |-> "none"]
Pending == [st |-> "pending"]
Rejected == [st |-> "rejected"]
Fulfilled(v) == [st |-> "fulfilled", value |-> v]
Response == [kind |-> "response"]     \* what fetch resolves with; the body is read by json()

Request(url) == [url |-> url, st |-> "pending"]

\* the network layer marks the call for url as settled
Settle(url) ==
    [k \in DOMAIN requests |->
        IF requests[k].url = url THEN [requests[k] EXCEPT !.st = "settled"]
        ELSE requests[k]]

Unchanged(t) == [text |-> t, threw |-> FALSE]
Thrown(t) == [text |-> t, threw |-> TRUE]

\* a catch clause that swallows the error without console.error
catchSilent(threw, msg) ==
    [log |-> <<>>, rethrow |-> FALSE]

\* catch (error) { console.error(msg, error); }
catch(threw, msg) ==
    [log |-> IF threw THEN <<msg>> ELSE <<>>, rethrow |-> FALSE]

-----------------------------------------------------------------------------
(* loadStatistics                                                          *)

\* stats.total_records || 0
orZero(f) == IF f = Absent \/ f[1] = 0 THEN 0 ELSE f[1]

\* stats.currencies || '-', as the text it becomes
currenciesOrDash(f) == IF f = Absent \/ f[1] = 0 THEN "-" ELSE ToString(f[1])

\* stats.latest_date || '-'
latestDateOrDash(f) == IF f = Absent \/ f[1] = "" THEN "-" ELSE f[1]

\* document.getElementById(id).textContent = value, run after r
assign(id, value, r) ==
    IF r.threw THEN r
    ELSE IF ~getElementById(id) THEN Thrown(r.text)
    ELSE [r EXCEPT !.text[id] = value]

\* an else branch that blanks every display element of the page on success false
renderStatisticsWipe(data, t) ==
    IF ~(Has(data, "success") /\ data.success)
    THEN Unchanged([id \in Ids |-> IF getElementById(id) THEN "-" ELSE t[id]])
    ELSE IF ~Has(data, "data") THEN Thrown(t)
    ELSE LET stats == data.data
             r1 == assign("totalRecords",
                          toLocaleString(orZero(stats.total_records)), Unchanged(t))
             r2 == assign("currencies", currenciesOrDash(stats.currencies), r1)
         IN  assign("latestDate", latestDateOrDash(stats.latest_date), r2)

\* an else branch that resets the three targets to a dash on success false
renderStatisticsReset(data, t) ==
    IF ~(Has(data, "success") /\ data.success)
    THEN assign("latestDate", "-",
                assign("currencies", "-", assign("totalRecords", "-", Unchanged(t))))
    ELSE IF ~Has(data, "data") THEN Thrown(t)
    ELSE LET stats == data.data
             r1 == assign("totalRecords",
                          toLocaleString(orZero(stats.total_records)), Unchanged(t))
             r2 == assign("currencies", currenciesOrDash(stats.currencies), r1)
         IN  assign("latestDate", latestDateOrDash(stats.latest_date), r2)

\* the body of the try block after the two awaits
renderStatistics(data, t) ==
    IF ~(Has(data, "success") /\ data.success) THEN Unchanged(t)
    ELSE IF ~Has(data, "data") THEN Thrown(t)
    ELSE LET stats == data.data
             r1 == assign("totalRecords",
                          toLocaleString(orZero(stats.total_records)), Unchanged(t))
             r2 == assign("currencies", currenciesOrDash(stats.currencies), r1)
         IN  assign("latestDate", latestDateOrDash(stats.latest_date), r2)

\* the network settles the statistics request
StatsFetchSettle ==
    /\ spc = "fetch" /\ sprom = Pending
    /\ \E o \in server[StatsUrl] :
         sprom' = IF o = NetworkError THEN Rejected ELSE Fulfilled(Response)
    /\ requests' = Settle(StatsUrl)
    /\ UNCHANGED <<dom, text, server, console, escaped, spc, rpc, ri, rprom, noteVars>>

\* the end of loadStatistics: c the catch clause's result
StatsEnd(c) ==
    /\ console' = console \o c.log
    /\ escaped' = (escaped \/ c.rethrow)
    /\ spc' = "done"
    /\ sprom' = NoPromise

\* loadStatistics resumes from await fetch(...)
loadStatistics_fetched ==
    /\ spc = "fetch" /\ sprom.st \in {"fulfilled", "rejected"}
    /\ IF sprom.st = "rejected"
       THEN StatsEnd(catch(TRUE, StatsMsg))
       ELSE /\ spc' = "json"
            /\ sprom' = Pending
            /\ UNCHANGED <<console, escaped>>
    /\ UNCHANGED <<dom, text, server, requests, rpc, ri, rprom, noteVars>>

\* the body arrives and response.json() settles
StatsJsonSettle ==
    /\ spc = "json" /\ sprom = Pending
    /\ \E o \in server[StatsUrl] \ {NetworkError} :
         sprom' = IF o.json THEN Fulfilled(o.value) ELSE Rejected
    /\ UNCHANGED <<dom, text, server, requests, console, escaped, spc, rpc, ri, rprom,
                   noteVars>>

\* loadStatistics resumes from await response.json()
loadStatistics_parsed ==
    /\ spc = "json" /\ sprom.st \in {"fulfilled", "rejected"}
    /\ LET r == IF sprom.st = "rejected" THEN Thrown(text)
                ELSE renderStatistics(sprom.value, text)
       IN  /\ text' = r.text
           /\ StatsEnd(catch(r.threw, StatsMsg))
    /\ UNCHANGED <<dom, server, requests, rpc, ri, rprom, noteVars>>

-----------------------------------------------------------------------------
(* loadMarketRates                                                         *)

\* all four requests started up front (Promise.all), none when a later iteration begins
fetchRateAhead(i) ==
    IF i = 1 THEN [k \in DOMAIN currencies |-> Request(RateUrl(currencies[k]))]
    ELSE <<>>

\* the requests issued when iteration i of the loop begins
fetchRate(i) == <<Request(RateUrl(currencies[i]))>>

\* the last observation instead of the first
last(d) == d[Len(d)]

\* data.data[0]
first(d) == d[1]

\* the element the rate of curr is written to
cardOf(curr) == curr.id

\* an empty data array clears the card to a dash
renderRateClear(curr, data, t) ==
    IF ~(Has(data, "success") /\ data.success) THEN Unchanged(t)
    ELSE IF ~Has(data, "data") THEN Thrown(t)
    ELSE LET card == cardOf(curr)
         IN  IF ~getElementById(card) THEN Unchanged(t)
             ELSE IF ~querySelector(card) THEN Thrown(t)
             ELSE IF ~(Len(data.data) > 0)
             THEN [text |-> [t EXCEPT ![card] = "-"], threw |-> FALSE]
             ELSE [text |-> [t EXCEPT ![card] = rateText(first(data.data)) \o "%"],
                   threw |-> FALSE]

\* the body of the try block after the two awaits
renderRate(curr, data, t) ==
    IF ~(Has(data, "success") /\ data.success) THEN Unchanged(t)
    ELSE IF ~Has(data, "data") THEN Thrown(t)
    ELSE IF ~(Len(data.data) > 0) THEN Unchanged(t)
    ELSE LET rate == rateText(first(data.data))
             card == cardOf(curr)
         IN  IF ~getElementById(card) THEN Unchanged(t)
             ELSE IF ~querySelector(card) THEN Thrown(t)
             ELSE [text |-> [t EXCEPT ![card] = rate \o "%"], threw |-> FALSE]

\* one try block around the whole loop: the first exception ends it
nextIterationAbort(i, threw) ==
    IF threw THEN 0 ELSE IF i < Len(currencies) THEN i + 1 ELSE 0

\* a loop bound one short: the last currency is never requested
nextIterationShort(i, threw) == IF i + 1 < Len(currencies) THEN i + 1 ELSE 0

\* for (const curr of currencies): the iteration after i, 0 when the loop is over
nextIteration(i, threw) == IF i < Len(currencies) THEN i + 1 ELSE 0

\* the end of iteration ri: c the catch clause's result
RatesEnd(threw, c) ==
    LET nxt == nextIteration(ri, threw)
    IN  /\ console' = console \o c.log
        /\ escaped' = (escaped \/ c.rethrow)
        /\ IF c.rethrow
           THEN /\ rpc' = "aborted"
                /\ rprom' = NoPromise
                /\ UNCHANGED <<ri, requests>>
           ELSE IF nxt = 0
           THEN /\ rpc' = "done"
                /\ rprom' = NoPromise
                /\ UNCHANGED <<ri, requests>>
           ELSE /\ rpc' = "fetch"
                /\ ri' = nxt
                /\ rprom' = Pending
                /\ requests' = requests \o fetchRate(nxt)

\* the network settles the rates request of the current iteration
RateFetchSettle ==
    /\ rpc = "fetch" /\ rprom = Pending
    /\ \E o \in server[RateUrl(currencies[ri])] :
         rprom' = IF o = NetworkError THEN Rejected ELSE Fulfilled(Response)
    /\ requests' = Settle(RateUrl(currencies[ri]))
    /\ UNCHANGED <<dom, text, server, console, escaped, spc, sprom, rpc, ri, noteVars>>

\* loadMarketRates resumes from await fetch(...)
loadMarketRates_fetched ==
    /\ rpc = "fetch" /\ rprom.st \in {"fulfilled", "rejected"}
    /\ IF rprom.st = "rejected"
       THEN RatesEnd(TRUE, catch(TRUE, RateMsg(currencies[ri])))
       ELSE /\ rpc' = "json"
            /\ rprom' = Pending
            /\ UNCHANGED <<console, escaped, ri, requests>>
    /\ UNCHANGED <<dom, text, server, spc, sprom, noteVars>>

\* the body arrives and response.json() settles
RateJsonSettle ==
    /\ rpc = "json" /\ rprom = Pending
    /\ \E o \in server[RateUrl(currencies[ri])] \ {NetworkError} :
         rprom' = IF o.json THEN Fulfilled(o.value) ELSE Rejected
    /\ UNCHANGED <<dom, text, server, requests, console, escaped, spc, sprom, rpc, ri,
                   noteVars>>

\* loadMarketRates resumes from await response.json()
loadMarketRates_parsed ==
    /\ rpc = "json" /\ rprom.st \in {"fulfilled", "rejected"}
    /\ LET curr == currencies[ri]
           r == IF rprom.st = "rejected" THEN Thrown(text)
                ELSE renderRate(curr, rprom.value, text)
       IN  /\ text' = r.text
           /\ RatesEnd(r.threw, catch(r.threw, RateMsg(curr)))
    /\ UNCHANGED <<dom, server, spc, sprom, noteVars>>

-----------------------------------------------------------------------------
(* Page load                                                               *)

\* the DOMContentLoaded handler: both loaders run to their first await
DOMContentLoaded ==
    /\ spc = "init" /\ rpc = "init"
    /\ requests' = requests \o <<Request(StatsUrl)>> \o fetchRate(ri)
    /\ spc' = "fetch" /\ sprom' = Pending
    /\ rpc' = "fetch" /\ rprom' = Pending
    /\ UNCHANGED <<dom, text, server, console, escaped, ri, noteVars>>

InitWith(servers, doms) ==
    /\ dom \in doms
    /\ server \in servers
    /\ text = [id \in Ids |-> Placeholder]
    /\ requests = <<>>
    /\ console = <<>>
    /\ escaped = FALSE
    /\ spc = "init" /\ sprom = NoPromise
    /\ rpc = "init" /\ ri = 1 /\ rprom = NoPromise
    /\ now = 0 /\ notes = <<>> /\ timers = {}

\* the rates loader under every outcome and every state of the four cards
RatesServers ==
    {[u \in Urls |-> IF u = StatsUrl THEN StatsOutcomes ELSE RateOutcomes]}

RatesDoms == {d \in Doms : StatIds \subseteq d.exists}

InitRates == InitWith(RatesServers, RatesDoms)

NextRates ==
    \/ DOMContentLoaded
    \/ RateFetchSettle
    \/ loadMarketRates_fetched
    \/ RateJsonSettle
    \/ loadMarketRates_parsed

SpecRates == InitRates /\ [][NextRates]_vars

\* the statistics loader under each outcome and every state of its three targets
StatsServers ==
    {[u \in Urls |-> IF u = StatsUrl THEN {o} ELSE {OkRates}] : o \in StatsOutcomes}

StatsDoms == {d \in Doms : CardIds \subseteq d.rate}

InitStats == InitWith(StatsServers, StatsDoms)

NextStats ==
    \/ DOMContentLoaded
    \/ StatsFetchSettle
    \/ loadStatistics_fetched
    \/ StatsJsonSettle
    \/ loadStatistics_parsed

SpecStats == InitStats /\ [][NextStats]_vars

-----------------------------------------------------------------------------
(* The page with both loaders                                              *)

PageRateOutcomes ==
    { NetworkError, Unparseable,
      JsonBody([success |-> FALSE]),
      JsonBody([success |-> TRUE]),
      JsonBody([success |-> TRUE, data |-> <<>>]),
      JsonBody([success |-> TRUE, data |-> <<[rate |-> Present(-12)]>>]),
      OkRates }

PageStatsOutcomes ==
    { NetworkError, Unparseable,
      JsonBody([success |-> FALSE]),
      JsonBody([success |-> TRUE]),
      JsonBody([success |-> TRUE,
                data |-> [total_records |-> Present(15234), currencies |-> Present(4),
                          latest_date |-> Present("2024-03-14")]]),
      JsonBody([success |-> TRUE,
                data |-> [total_records |-> Absent, currencies |-> Present(4),
                          latest_date |-> Absent]]) }

\* each request has one outcome; at most one currency departs from OkRates
PageServers ==
    {[u \in Urls |-> IF u = StatsUrl THEN {s} ELSE IF u = v THEN {o} ELSE {OkRates}] :
        s \in PageStatsOutcomes, v \in RateUrls, o \in PageRateOutcomes}

PageDoms == {d \in Doms : Defects(d) <= 1}

Init == InitWith(PageServers, PageDoms)

Next ==
    \/ DOMContentLoaded
    \/ StatsFetchSettle
    \/ loadStatistics_fetched
    \/ StatsJsonSettle
    \/ loadStatistics_parsed
    \/ RateFetchSettle
    \/ loadMarketRates_fetched
    \/ RateJsonSettle
    \/ loadMarketRates_parsed

Spec == Init /\ [][Next]_vars

\* the page becomes ready, every issued request settles, every continuation runs
FairSpec ==
    /\ Spec
    /\ WF_vars(DOMContentLoaded)
    /\ WF_vars(StatsFetchSettle) /\ WF_vars(loadStatistics_fetched)
    /\ WF_vars(StatsJsonSettle) /\ WF_vars(loadStatistics_parsed)
    /\ WF_vars(RateFetchSettle) /\ WF_vars(loadMarketRates_fetched)
    /\ WF_vars(RateJsonSettle) /\ WF_vars(loadMarketRates_parsed)

-----------------------------------------------------------------------------
(* showNotification                                                        *)

DismissDelay == 3000     \* the outer setTimeout
ExitDelay == 300         \* the inner setTimeout

\* setTimeout runs its callback once the delay has passed and the event loop is
\* free, so at the due time or later: a due timer fires before the clock is this
\* far past it
MaxLate == 300

Types == {"info", "success", "error"}

background(type) ==
    IF type = "error" THEN "#ef4444"
    ELSE IF type = "success" THEN "#10b981"
    ELSE "#3b82f6"

\* one shared variable for the element: a callback acts on the latest notification
targetLatest(t) == Len(notes)

\* the element a timer's callback acts on: the notification of its own call
target(t) == t.note

showNotification(message, type) ==
    /\ Len(notes) < MaxNotes
    /\ notes' = Append(notes,
                       [className |-> "notification notification-" \o type,
                        textContent |-> message,
                        background |-> background(type),
                        animation |-> "slideIn 0.3s ease-out",
                        attached |-> TRUE,
                        created |-> now,
                        removed |-> 0])
    /\ timers' = timers \cup {[fn |-> "exit", note |-> Len(notes) + 1,
                               due |-> now + DismissDelay]}
    /\ UNCHANGED <<now, loaderVars>>

\* the outer timer's callback
exitTimer(t) ==
    /\ t.fn = "exit" /\ now >= t.due
    /\ notes' = [notes EXCEPT ![target(t)].animation = "slideOut 0.3s ease-out"]
    /\ timers' = (timers \ {t}) \cup {[fn |-> "remove", note |-> t.note,
                                       due |-> now + ExitDelay]}
    /\ UNCHANGED <<now, loaderVars>>

\* the inner timer's callback: notification.remove()
removeTimer(t) ==
    /\ t.fn = "remove" /\ now >= t.due
    /\ notes' = [notes EXCEPT ![target(t)].attached = FALSE,
                              ![target(t)].removed = @ + 1]
    /\ timers' = timers \ {t}
    /\ UNCHANGED <<now, loaderVars>>

\* the clock advances, in steps of the shorter delay
Tick ==
    /\ now + ExitDelay <= MaxTime
    /\ \A t \in timers : now < t.due + MaxLate
    /\ now' = now + ExitDelay
    /\ UNCHANGED <<notes, timers, loaderVars>>

NextNotify ==
    \/ \E type \in Types : showNotification("Saved", type)
    \/ \E t \in timers : exitTimer(t)
    \/ \E t \in timers : removeTimer(t)
    \/ Tick

InitNotify ==
    InitWith({[u \in Urls |-> {NetworkError}]}, {d \in Doms : Defects(d) = 0})

SpecNotify == InitNotify /\ [][NextNotify]_vars

-----------------------------------------------------------------------------
(* Vocabulary of the properties                                            *)

IsRateRequest(q) == q.url \in RateUrls
IsStatsRequest(q) == q.url = StatsUrl

RateRequests == SelectSeq(requests, IsRateRequest)
StatsRequests == SelectSeq(requests, IsStatsRequest)

Logged(msg) == \E k \in DOMAIN console : console[k] = msg
TimesLogged(msg) == Cardinality({k \in DOMAIN console : console[k] = msg})

\* this step ends the current iteration of loadMarketRates
RateIterEnds ==
    /\ rpc \in {"fetch", "json"}
    /\ ri' # ri \/ rpc' \in {"done", "aborted"}

\* this step ends loadStatistics
StatsEnds == spc \in {"fetch", "json"} /\ spc' = "done"

\* the current iteration holds a parsed, successful response with observations
HoldsObservations ==
    /\ rpc = "json" /\ rprom.st = "fulfilled"
    /\ Has(rprom.value, "success") /\ rprom.value.success
    /\ Has(rprom.value, "data") /\ Len(rprom.value.data) > 0

\* the texts the properties expect, written out
PercentOf(obs) ==
    IF obs.rate = Absent THEN "NaN%"
    ELSE IF obs.rate[1] = 4238 THEN "4.24%"
    ELSE IF obs.rate[1] = -12 THEN "-0.01%"
    ELSE "?"

CardFor(code) ==
    IF code = "AUD" THEN "audCard"
    ELSE IF code = "USD" THEN "usdCard"
    ELSE IF code = "JPY" THEN "jpyCard"
    ELSE "nzdCard"

\* the currency the latest rates request asked for
AskedCurrency ==
    LET url == RateRequests[Len(RateRequests)].url
    IN  CHOOSE code \in {"AUD", "USD", "JPY", "NZD"} :
            url = API_BASE \o "/api/rates?currency=" \o code \o "&tenor=10Y&limit=1"

\* the one outcome of a request, where the backend has one
OutcomeOf(url) == CHOOSE o \in server[url] : TRUE

IsJson(o) == o.kind = "body" /\ o.json
Succeeds(o) == IsJson(o) /\ Has(o.value, "success") /\ o.value.success
HasData(o) == Succeeds(o) /\ Has(o.value, "data")

-----------------------------------------------------------------------------
(* C1: the four rate requests are issued one after another in the order    *)
(* AUD, USD, JPY, NZD: at most one is outstanding at any time, and each    *)
(* is issued only when the one before has settled and its iteration ended. *)
C1_Sequential ==
    LET rr == RateRequests
    IN  /\ Len(rr) <= Len(currencies)
        /\ \A k \in DOMAIN rr : rr[k].url = RateUrl(currencies[k])
        /\ Cardinality({k \in DOMAIN rr : rr[k].st = "pending"}) <= 1
        /\ \A k \in DOMAIN rr : k < Len(rr) => rr[k].st = "settled" /\ ri > k

C1_Witness ==
    /\ Len(RateRequests) = 4
    /\ RateRequests[3].st = "settled"
    /\ RateRequests[4].st = "pending"

-----------------------------------------------------------------------------
(* C2: a failure of one currency (network error, unparseable body,         *)
(* success false, empty data, missing card or missing .market-rate child)  *)
(* does not end the loop: every iteration but the last issues the next     *)
(* currency's request, the loader finishes only after four requests, and   *)
(* whatever came before, a successful non-empty response for an intact     *)
(* card is written to that card.                                           *)
C2_Issued ==
    /\ rpc # "aborted"
    /\ rpc # "init" => Len(RateRequests) = ri
    /\ rpc = "done" => ri = Len(currencies)

C2_StillWritten ==
    (RateIterEnds /\ HoldsObservations
       /\ currencies[ri].id \in dom.exists /\ currencies[ri].id \in dom.rate)
      => text'[currencies[ri].id] = PercentOf(rprom.value.data[1])

\* C2: no failure ends the loop, and a later successful response is still written
C2_PerItem == []C2_Issued /\ [][C2_StillWritten]_vars

C2_Witness ==
    /\ rpc = "done"
    /\ Logged("Failed to load AUD rate:")
    /\ "usdCard" \notin dom.exists
    /\ Logged("Failed to load JPY rate:")
    /\ text["nzdCard"] = "4.24%"

-----------------------------------------------------------------------------
(* C3: the text of a currency's rate element changes only in the step that *)
(* ends that currency's iteration with a parsed, successful, non-empty     *)
(* response; so after a failed request, success false or an empty data     *)
(* array it is the text it was before. No exception leaves the loader.     *)
C3_OnlyOnData ==
    \A i \in DOMAIN currencies :
        text'[currencies[i].id] # text[currencies[i].id]
          => RateIterEnds /\ ri = i /\ HoldsObservations

\* C3: a card keeps its text unless its own response brings observations; nothing escapes
C3_Untouched == [][C3_OnlyOnData]_vars /\ [](~escaped /\ rpc # "aborted")

C3_Witness ==
    /\ rpc = "done"
    /\ dom.rate = CardIds
    /\ console = <<"Failed to load USD rate:">>
    /\ text["audCard"] = Placeholder
    /\ text["usdCard"] = Placeholder
    /\ text["jpyCard"] = "-0.01%"

-----------------------------------------------------------------------------
(* C4: when the statistics request fails (network error or success false), *)
(* the three targets keep their text, the request is not repeated, and no  *)
(* exception leaves loadStatistics.                                        *)
StatsFailed ==
    \/ OutcomeOf(StatsUrl) = NetworkError
    \/ IsJson(OutcomeOf(StatsUrl)) /\ ~Succeeds(OutcomeOf(StatsUrl))

\* C4: a failed statistics request changes no target, is not retried, and nothing escapes
C4_FailureFrame ==
    StatsFailed =>
        /\ \A id \in StatIds : text[id] = Placeholder
        /\ Len(StatsRequests) <= 1
        /\ spc = "done" => Len(StatsRequests) = 1
        /\ ~escaped

C4_Witness ==
    /\ spc = "done"
    /\ OutcomeOf(StatsUrl) = JsonBody([success |-> FALSE])
    /\ StatIds \subseteq dom.exists

-----------------------------------------------------------------------------
(* C6, as stated: after a successful statistics response the three texts   *)
(* are the fields of the response, total_records formatted as a number,    *)
(* with 0 only for an absent total_records and a dash only for an absent   *)
(* currencies or latest_date.                                              *)
GroupedText(n) == IF n = 15234 THEN "15,234" ELSE IF n = 0 THEN "0" ELSE "?"
NumberText(n) == IF n = 4 THEN "4" ELSE IF n = 0 THEN "0" ELSE "?"

\* C6: the three texts are the fields; defaults stand in for absent fields only
C6_FieldsShown ==
    (spc = "done" /\ HasData(OutcomeOf(StatsUrl)) /\ StatIds \subseteq dom.exists) =>
        LET stats == OutcomeOf(StatsUrl).value.data
        IN  /\ text["totalRecords"] =
                 (IF stats.total_records = Absent THEN "0"
                  ELSE GroupedText(stats.total_records[1]))
            /\ text["currencies"] =
                 (IF stats.currencies = Absent THEN "-"
                  ELSE NumberText(stats.currencies[1]))
            /\ text["latestDate"] =
                 (IF stats.latest_date = Absent THEN "-" ELSE stats.latest_date[1])

-----------------------------------------------------------------------------
(* C5, as stated: at both call sites every failure of the three kinds      *)
(* (transport failure; unparseable, unsuccessful or incomplete response;   *)
(* missing DOM target) is caught, logged and swallowed.                    *)
StatsFailure ==
    LET o == OutcomeOf(StatsUrl)
    IN  \/ o = NetworkError
        \/ ~IsJson(o) \/ ~Succeeds(o) \/ ~HasData(o)
        \/ HasData(o) /\ ~(StatIds \subseteq dom.exists)

RateFailure(i) ==
    LET o == OutcomeOf(RateUrl(currencies[i]))
        id == currencies[i].id
    IN  \/ o = NetworkError
        \/ ~IsJson(o) \/ ~Succeeds(o) \/ ~HasData(o)
        \/ HasData(o) /\ Len(o.value.data) > 0
             /\ (id \notin dom.exists \/ id \notin dom.rate)

RateIterOver(i) == ri > i \/ rpc = "done"

StatsThrows ==
    LET o == OutcomeOf(StatsUrl)
    IN  \/ o = NetworkError
        \/ ~IsJson(o)
        \/ Succeeds(o) /\ ~HasData(o)
        \/ HasData(o) /\ ~(StatIds \subseteq dom.exists)

RateThrows(i) ==
    LET o == OutcomeOf(RateUrl(currencies[i]))
        id == currencies[i].id
    IN  \/ o = NetworkError
        \/ ~IsJson(o)
        \/ Succeeds(o) /\ ~HasData(o)
        \/ HasData(o) /\ Len(o.value.data) > 0
             /\ id \in dom.exists /\ id \notin dom.rate

-----------------------------------------------------------------------------
(* C7: a successful response with observations is shown as the percentage  *)
(* of its first observation, two decimals and a % sign, in the rate        *)
(* element of the card of the currency that was asked for, and no other    *)
(* text changes; when that card does not exist nothing is written and      *)
(* nothing is thrown or logged.                                            *)
C7_Step ==
    (RateIterEnds /\ HoldsObservations) =>
        LET card == CardFor(AskedCurrency)
        IN  IF card \notin dom.exists
            THEN text' = text /\ console' = console /\ ~escaped' /\ rpc' # "aborted"
            ELSE IF card \in dom.rate
            THEN text' = [text EXCEPT ![card] = PercentOf(rprom.value.data[1])]
            ELSE text' = text

\* C7: the first observation, as a percentage, goes to the card of the currency asked for
C7_FirstObservation == [][C7_Step]_vars

C7_Witness ==
    /\ rpc = "json" /\ ri = 3
    /\ text["audCard"] = "4.24%"
    /\ text["usdCard"] = "-0.01%"
    /\ "jpyCard" \notin dom.exists
    /\ rprom = Fulfilled([success |-> TRUE,
                          data |-> <<[rate |-> Present(-12)], [rate |-> Present(4238)]>>])

-----------------------------------------------------------------------------
(* C8, as stated: a notification is present from the call until 3000 ms    *)
(* have elapsed, is in its exit animation once 3000 ms have elapsed and is *)
(* absent once 3300 ms have elapsed. (The instants 3000 and 3300, at which *)
(* the timers are due, are left open.)                                     *)
Age(n) == now - n.created

\* C8, as stated: attached before 3000 ms, exiting after 3000 ms, absent after 3300 ms
C8_OnSchedule ==
    \A k \in DOMAIN notes :
        LET n == notes[k]
        IN  /\ Age(n) < DismissDelay => n.attached
            /\ Age(n) > DismissDelay => n.animation = "slideOut 0.3s ease-out"
            /\ Age(n) > DismissDelay + ExitDelay => ~n.attached
            /\ n.removed <= 1

(* C8, amended: a notification is present from the call until at least     *)
(* 3000 ms have elapsed; its exit animation begins when its first timer    *)
(* fires, at 3000 ms or later; it is removed when its second timer fires,  *)
(* 300 ms or more after the first, so at 3300 ms or later. Each call has   *)
(* its own element and timers: an element is changed only by a due timer   *)
(* of its own, is removed once, and no other call removes or postpones its *)
(* timers.                                                                 *)
C8_NotEarlier ==
    \A k \in DOMAIN notes :
        LET n == notes[k]
            own == {t \in timers : t.note = k}
        IN  /\ Age(n) < DismissDelay
                 => n.attached /\ n.animation = "slideIn 0.3s ease-out"
            /\ n.animation = "slideOut 0.3s ease-out" => Age(n) >= DismissDelay
            /\ ~n.attached => /\ Age(n) >= DismissDelay + ExitDelay
                              /\ n.animation = "slideOut 0.3s ease-out"
            /\ n.removed = (IF n.attached THEN 0 ELSE 1)
            /\ Cardinality(own) = (IF n.attached THEN 1 ELSE 0)
            /\ \A t \in own :
                 /\ t.fn = "exit" => t.due = n.created + DismissDelay
                 /\ t.fn = "remove" => t.due >= n.created + DismissDelay + ExitDelay

C8_OwnTimers ==
    \A k \in DOMAIN notes :
        /\ k \in DOMAIN notes'
        /\ notes'[k] # notes[k]
             => \E t \in timers : t.note = k /\ t \notin timers' /\ now >= t.due
        /\ \A t \in timers : (t.note = k /\ t \notin timers') => notes'[k] # notes[k]

\* C8, amended: never earlier than 3000 and 3300 ms, and only by the element's own timers
C8_Dismissal == []C8_NotEarlier /\ [][C8_OwnTimers]_vars

C8_Witness ==
    /\ Len(notes) = 2
    /\ ~notes[1].attached
    /\ notes[2].attached /\ notes[2].animation = "slideOut 0.3s ease-out"
    /\ notes[2].created > notes[1].created
    /\ notes[2].created < notes[1].created + DismissDelay

-----------------------------------------------------------------------------
(* C9: the loaders write disjoint elements (a step that changes a card's   *)
(* rate text is a step of loadMarketRates alone, a step that changes       *)
(* totalRecords, currencies or latestDate is a step of loadStatistics      *)
(* alone), and once both are done the page text is what the loaders leave  *)
(* when run one after the other, in either order, with the same responses: *)
(* each target holds what its own loader writes on its own.                *)
InitialText == [id \in Ids |-> Placeholder]

RunStats(t) ==
    LET o == OutcomeOf(StatsUrl)
    IN  IF IsJson(o) THEN renderStatistics(o.value, t).text ELSE t

RECURSIVE RunRates(_, _)
RunRates(i, t) ==
    IF i > Len(currencies) THEN t
    ELSE LET o == OutcomeOf(RateUrl(currencies[i]))
         IN  RunRates(i + 1, IF IsJson(o) THEN renderRate(currencies[i], o.value, t).text
                             ELSE t)

C9_Final ==
    (spc = "done" /\ rpc = "done") =>
        /\ text = RunRates(1, RunStats(InitialText))
        /\ text = RunStats(RunRates(1, InitialText))
        /\ \A id \in StatIds : text[id] = RunStats(InitialText)[id]
        /\ \A id \in CardIds : text[id] = RunRates(1, InitialText)[id]

C9_Disjoint ==
    /\ (\E id \in CardIds : text'[id] # text[id])
         => /\ RateIterEnds /\ spc' = spc /\ sprom' = sprom
            /\ \A id \in StatIds : text'[id] = text[id]
    /\ (\E id \in StatIds : text'[id] # text[id])
         => /\ StatsEnds /\ rpc' = rpc /\ ri' = ri /\ rprom' = rprom
            /\ \A id \in CardIds : text'[id] = text[id]

\* C9: disjoint writes, and a final text that no interleaving changes
C9_Independent == []C9_Final /\ [][C9_Disjoint]_vars

C9_Witness ==
    /\ spc = "done" /\ rpc = "done"
    /\ console = <<"Failed to load USD rate:", "Failed to load statistics:">>
    /\ text["audCard"] = "4.24%" /\ text["nzdCard"] = "4.24%"
    /\ text["usdCard"] = Placeholder
    /\ text["totalRecords"] = "15,234" /\ text["latestDate"] = Placeholder

-----------------------------------------------------------------------------
(* C10: when the page becomes ready and every issued request settles, both *)
(* loaders finish: loadStatistics after exactly one statistics request,    *)
(* loadMarketRates after exactly four rate requests, one per configured    *)
(* currency. A loader moves, and issues a request, only when the promise   *)
(* it awaits has settled.                                                  *)
C10_Counts ==
    /\ Len(StatsRequests) <= 1
    /\ Len(RateRequests) <= Len(currencies)
    /\ spc = "done" => Len(StatsRequests) = 1
    /\ rpc = "done" =>
         /\ Len(RateRequests) = Len(currencies)
         /\ \A k \in DOMAIN currencies : RateRequests[k].url = RateUrl(currencies[k])
         /\ \A k \in DOMAIN requests : requests[k].url \in RateUrls
                                          => requests[k].st = "settled"

C10_Waits ==
    /\ (spc # "init" /\ spc' # spc) => sprom.st \in {"fulfilled", "rejected"}
    /\ (rpc # "init" /\ (rpc' # rpc \/ ri' # ri \/ Len(requests') > Len(requests)))
         => rprom.st \in {"fulfilled", "rejected"}

\* C10: both loaders finish, after one and four requests, waiting on each request
C10_Terminates ==
    /\ <>(spc = "done" /\ rpc = "done")
    /\ []C10_Counts
    /\ [][C10_Waits]_vars

C10_Witness ==
    /\ spc = "done" /\ rpc = "done"
    /\ Len(requests) = 5
    /\ \A k \in DOMAIN requests : requests[k].st = "settled"
    /\ Logged("Failed to load NZD rate:")

====
